---- MODULE Spec2Model ----
(***************************************************************************)
(* Model of website_scanner.py: one scan of one site.                      *)
(*                                                                         *)
(* main() normalises its argument, fetches https://<domain>, evaluates the *)
(* check modules over the fetched body and headers, probes /robots.txt and *)
(* /sitemap.xml inside check_infra, and prints the report.                 *)
(*                                                                         *)
(* Representation.                                                         *)
(*  - A URL or argument is a sequence of tokens ("https://", "http://",    *)
(*    "/", a host or path word).                                           *)
(*  - A Python dict is an insertion-ordered sequence of entries; the       *)
(*    entry's "name" field is the key (Put, Update).                       *)
(*  - The fetched body is described by what the regular expressions and    *)
(*    substring tests of the check modules extract from it (the fields of  *)
(*    a Response record); the check modules are computed from those.       *)
(*  - Times are integers: the elapsed time in milliseconds, load_time in   *)
(*    hundredths of a second (round(..., 2)).                              *)
(*  - int((a / b) * 100) is computed exactly as (a * 100) \div b; the      *)
(*    double-precision result of the source is the same for every b < 50   *)
(*    (the smallest divergence is a = 29, b = 50, which gives 57).         *)
(***************************************************************************)
EXTENDS Integers, Sequences, FiniteSets, TLC

VARIABLES
    argv,          \* sys.argv[1:], a sequence of arguments
    pc,            \* position of main
    domain,        \* main: domain
    base_url,      \* main: base_url
    html,          \* main: html (the features of the decoded body)
    resp_headers,  \* main: resp_headers (set of lower-cased keys)
    load_time,     \* main: load_time, in hundredths of a second
    all_checks,    \* main: all_checks
    results,       \* check_infra: results
    trace,         \* history: fetch_url calls and check module calls, in order
    stdout,        \* lines printed
    exit_code      \* None while running, then the process's exit status

vars == <<argv, pc, domain, base_url, html, resp_headers, load_time,
          all_checks, results, trace, stdout, exit_code>>

None == "None"

\* ------------------------------------------------------------------ bounds
MaxVaried == 1      \* inputs of a response that differ from a reference response
MaxImgs == 2        \* <img> tags in a body
MaxH1 == 2          \* <h1> elements in a body
MaxTotal == 25      \* size of a result set handed to print_report directly

\* ------------------------------------------------------- program constants
TitleMin == 30
TitleMax == 60
DescMin == 70
DescMax == 160
PreviewLen == 50
FastLoad == 200     \* 2.0 s, in hundredths
SlowLoad == 300     \* 3.0 s, in hundredths
BloatLimit == 50
ExcellentMin == 85
GoodMin == 65
NeedsWorkMin == 45
BarSegments == 10

\* ----------------------------------------------------------------- helpers
Min(a, b) == IF a < b THEN a ELSE b

\* dict: results[name] = rec
Put(d, e) ==
    IF \E i \in 1..Len(d) : d[i].name = e.name
    THEN [i \in 1..Len(d) |-> IF d[i].name = e.name THEN e ELSE d[i]]
    ELSE Append(d, e)

\* dict.update(other)
RECURSIVE Update(_, _)
Update(d, other) ==
    IF other = <<>> THEN d ELSE Update(Put(d, Head(other)), Tail(other))

Names(d) == {d[i].name : i \in 1..Len(d)}
Get(d, n) == d[CHOOSE i \in 1..Len(d) : d[i].name = n]

Entry(n, p, imp, cat, det) ==
    [name |-> n, pass |-> p, impact |-> imp, category |-> cat, detail |-> det]

\* str.replace(tok, "")
Remove(s, tok) == SelectSeq(s, LAMBDA t : t # tok)

\* str.strip("/")
RECURSIVE LStrip(_)
LStrip(s) == IF s # <<>> /\ Head(s) = "/" THEN LStrip(Tail(s)) ELSE s
RECURSIVE RStrip(_)
RStrip(s) ==
    IF s # <<>> /\ s[Len(s)] = "/" THEN RStrip(SubSeq(s, 1, Len(s) - 1)) ELSE s
Strip(s) == RStrip(LStrip(s))

\* main: domain = sys.argv[1].replace("https://", "").replace("http://", "").strip("/")
Normalize(arg) == Strip(Remove(Remove(arg, "https://"), "http://"))

\* variant: the scheme of the base URL is not forced to https
BaseUrl_KeepHttp(dom) == <<"http://">> \o dom

\* main: base_url = f"https://{domain}"
BaseUrl(dom) == <<"https://">> \o dom

\* str.startswith
StartsWith(s, tok) == s # <<>> /\ Head(s) = tok

\* k.lower() of a response header name
Lower(k) ==
    CASE k = "Strict-Transport-Security" -> "strict-transport-security"
      [] k = "X-Content-Type-Options"    -> "x-content-type-options"
      [] k = "X-FRAME-OPTIONS"           -> "x-frame-options"
      [] k = "Content-Security-Policy"   -> "content-security-policy"
      [] k = "Referrer-Policy"           -> "referrer-policy"
      [] k = "permissions-policy"        -> "permissions-policy"
      [] k = "Content-Type"              -> "content-type"
      [] OTHER                           -> k

\* main: {k.lower(): v for k, v in r.headers.items()}
LowerKeys(hs) == {Lower(k) : k \in hs}

\* main: round(elapsed seconds, 2), from milliseconds to hundredths
RoundLoad(ms) == (ms + 5) \div 10

\* ------------------------------------------------------------ check_security
security_headers ==
    << [header |-> "strict-transport-security", label |-> "HSTS", impact |-> "high"],
       [header |-> "x-content-type-options", label |-> "X-Content-Type-Options", impact |-> "medium"],
       [header |-> "x-frame-options", label |-> "X-Frame-Options", impact |-> "medium"],
       [header |-> "content-security-policy", label |-> "CSP", impact |-> "high"],
       [header |-> "referrer-policy", label |-> "Referrer-Policy", impact |-> "low"],
       [header |-> "permissions-policy", label |-> "Permissions-Policy", impact |-> "low"] >>

RECURSIVE HeaderChecks(_, _, _)
HeaderChecks(res, table, headers) ==
    IF table = <<>> THEN res
    ELSE HeaderChecks(
            Put(res, Entry(Head(table).label, Head(table).header \in headers,
                           Head(table).impact, "security", None)),
            Tail(table), headers)

\* variant: the HTTPS result is stored under the label of a header check
HttpsCheck_Collides(url) ==
    Entry("HSTS", StartsWith(url, "https://"), "critical", "security", None)

HttpsCheck(url) ==
    Entry("HTTPS/SSL", StartsWith(url, "https://"), "critical", "security", None)

\* re.sub removes every '<script ... src="http://' prefix; what is left of the
\* body holds "http://" iff the body has one outside such a prefix.
MixedContentCheck(h) ==
    Entry("No mixed content", ~h.other_http, "high", "security", None)

check_security(url, h, headers) ==
    Put(Put(HeaderChecks(<<>>, security_headers, headers), HttpsCheck(url)),
        MixedContentCheck(h))

\* ----------------------------------------------------------------- check_seo
\* variant: the title is measured without stripping tags and whitespace
TitleLen_Raw(t) == t.raw

\* title: <<>> when the <title> pattern does not match, else <<t>> where t
\* gives the length of the matched content (raw) and of the nested tags and
\* outer whitespace in it (markup), which re.sub(...).strip() take away.
TitleLen(t) == t.raw - t.markup

TitleCheck(h) ==
    IF h.title = <<>> \/ TitleLen(h.title[1]) = 0
    THEN Entry("Title tag", FALSE, "critical", "seo", "Missing")
    ELSE IF TitleLen(h.title[1]) < TitleMin \/ TitleLen(h.title[1]) > TitleMax
    THEN Entry("Title tag", FALSE, "high", "seo",
               ToString(TitleLen(h.title[1])) \o " chars (target: 30-60)")
    ELSE Entry("Title tag", TRUE, "critical", "seo",
               "title[:" \o ToString(Min(TitleLen(h.title[1]), PreviewLen)) \o "]")

\* desc: <<>> when the <meta name="description"> pattern does not match, else
\* <<n>> with n the length of the content attribute
DescCheck(h) ==
    IF h.desc = <<>> \/ h.desc[1] = 0
    THEN Entry("Meta description", FALSE, "high", "seo", "Missing")
    ELSE IF h.desc[1] < DescMin \/ h.desc[1] > DescMax
    THEN Entry("Meta description", FALSE, "medium", "seo",
               ToString(h.desc[1]) \o " chars (target: 70-160)")
    ELSE Entry("Meta description", TRUE, "high", "seo",
               ToString(h.desc[1]) \o " chars ok")   \* the source ends it with a check mark

\* h1s: the stripped text length of each <h1> element
H1Check(h) ==
    IF h.h1s = <<>>
    THEN Entry("H1 tag", FALSE, "critical", "seo", "Missing")
    ELSE IF Len(h.h1s) > 1
    THEN Entry("H1 tag", FALSE, "high", "seo",
               ToString(Len(h.h1s)) \o " H1s found (should be 1)")
    ELSE Entry("H1 tag", TRUE, "critical", "seo",
               IF h.h1s[1] = 0 THEN ""
               ELSE "h1[:" \o ToString(Min(h.h1s[1], PreviewLen)) \o "]")

check_seo(h, url) ==
    Put(Put(Put(Put(Put(Put(<<>>,
        TitleCheck(h)),
        DescCheck(h)),
        H1Check(h)),
        Entry("Canonical tag", h.canonical, "high", "seo", None)),
        Entry("Schema markup", h.schema, "high", "seo", None)),
        Entry("Open Graph tags", h.og, "medium", "seo", None))

\* --------------------------------------------------------- check_performance
LoadDetail(lt) == ToString(lt) \o "/100 s"

\* imgs: for each <img> tag, whether it has a non-empty alt attribute
MissingAlt(imgs) == Len(SelectSeq(imgs, LAMBDA a : ~a))

ImageAltCheck(h) ==
    IF h.imgs # <<>>
    THEN << Entry("Image alt text", MissingAlt(h.imgs) = 0, "medium", "performance",
                  IF MissingAlt(h.imgs) # 0
                  THEN ToString(MissingAlt(h.imgs)) \o "/" \o ToString(Len(h.imgs)) \o " missing alt"
                  ELSE "All " \o ToString(Len(h.imgs)) \o " have alt text") >>
    ELSE <<>>

check_performance(lt, h) ==
    Put(Update(Put(Put(Put(<<>>,
        Entry("Load time (<2s)", lt < FastLoad, "high", "performance", LoadDetail(lt))),
        Entry("Load time (<3s)", lt < SlowLoad, "critical", "performance", LoadDetail(lt))),
        Entry("Mobile viewport", h.viewport, "high", "performance", None)),
        ImageAltCheck(h)),
        Entry("HTML not bloated", h.indents < BloatLimit, "low", "performance", None))

\* ---------------------------------------------------------- check_compliance
\* phrases: the trigger substrings that occur in html.lower()
AnyIn(triggers, h) == \E x \in triggers : x \in h.phrases

PrivacyTriggers == {"privacy policy", "privacy-policy", "/privacy", "gdpr", "data protection"}
CookieTriggers == {"cookie", "consent", "gdpr", "we use cookies"}
TermsTriggers == {"terms of service", "terms and conditions", "/terms", "terms of use"}
ContactTriggers == {"contact", "email", "@", "mailto:"}

\* variant: a failed contact check is reported with a higher impact
check_compliance_ImpactByResult(h, url) ==
    Put(Put(Put(Put(<<>>,
        Entry("Privacy policy", AnyIn(PrivacyTriggers, h), "high", "compliance", None)),
        Entry("Cookie notice", AnyIn(CookieTriggers, h), "medium", "compliance", None)),
        Entry("Terms of service", AnyIn(TermsTriggers, h), "medium", "compliance", None)),
        Entry("Contact info", AnyIn(ContactTriggers, h),
              IF AnyIn(ContactTriggers, h) THEN "low" ELSE "medium", "compliance", None))

check_compliance(h, url) ==
    Put(Put(Put(Put(<<>>,
        Entry("Privacy policy", AnyIn(PrivacyTriggers, h), "high", "compliance", None)),
        Entry("Cookie notice", AnyIn(CookieTriggers, h), "medium", "compliance", None)),
        Entry("Terms of service", AnyIn(TermsTriggers, h), "medium", "compliance", None)),
        Entry("Contact info", AnyIn(ContactTriggers, h), "low", "compliance", None))

\* --------------------------------------------------------------- check_infra
infra_probes ==
    << [path |-> "/robots.txt", label |-> "robots.txt", impact |-> "medium"],
       [path |-> "/sitemap.xml", label |-> "sitemap.xml", impact |-> "high"] >>

\* What fetch_url does for a request: it returns a response with a status
\* (urlopen returns 2xx responses only) or raises.
Returned(status) == [status |-> status, error |-> None]
Raised(e) == [status |-> 0, error |-> e]
NoOutcome == [status |-> 0, error |-> None]

ProbeOutcomes == {Returned(200), Returned(204), Raised("timeout")}

\* variant: any response that does not raise counts as present
ProbeResult_AnyStatus(probe, outcome) ==
    Entry(probe.label, outcome.error = None, probe.impact, "seo", None)

\* one iteration of the loop of check_infra: the try/except around fetch_url
ProbeResult(probe, outcome) ==
    IF outcome.error = None
    THEN Entry(probe.label, outcome.status = 200, probe.impact, "seo", None)
    ELSE Entry(probe.label, FALSE, probe.impact, "seo", None)

\* -------------------------------------------------------------- print_report
IMPACT_ORDER(imp) ==
    CASE imp = "critical" -> 0
      [] imp = "high"     -> 1
      [] imp = "medium"   -> 2
      [] imp = "low"      -> 3
      [] OTHER            -> 3

IMPACT_ICONS(imp) ==
    CASE imp = "critical" -> "red"
      [] imp = "high"     -> "orange"
      [] imp = "medium"   -> "yellow"
      [] imp = "low"      -> "green"
      [] OTHER            -> "white"

categories == <<"security", "seo", "performance", "compliance">>

Passed(checks) == SelectSeq(checks, LAMBDA c : c.pass)
Failed(checks) == SelectSeq(checks, LAMBDA c : ~c.pass)
InCategory(checks, cat) == SelectSeq(checks, LAMBDA c : c.category = cat)

\* variant: round((a / b) * 100) with halves rounded up
Percent_Rounded(a, b) == (a * 200 + b) \div (2 * b)

\* int((a / b) * 100)
Percent(a, b) == (a * 100) \div b

Score(checks) == Percent(Len(Passed(checks)), Len(checks))

CatScore(checks, cat) ==
    Percent(Len(Passed(InCategory(checks, cat))), Len(InCategory(checks, cat)))

\* variant: the tier boundaries are exclusive
Verdict_Exclusive(score) ==
    IF score > ExcellentMin THEN "Excellent"
    ELSE IF score > GoodMin THEN "Good"
    ELSE IF score > NeedsWorkMin THEN "Needs work"
    ELSE "Critical"

Verdict(score) ==
    IF score >= ExcellentMin THEN "Excellent"
    ELSE IF score >= GoodMin THEN "Good"
    ELSE IF score >= NeedsWorkMin THEN "Needs work"
    ELSE "Critical"

\* sorted(items, key=IMPACT_ORDER): a stable sort on a key in 0..3
SortByImpact(s) ==
    SelectSeq(s, LAMBDA c : IMPACT_ORDER(c.impact) = 0) \o
    SelectSeq(s, LAMBDA c : IMPACT_ORDER(c.impact) = 1) \o
    SelectSeq(s, LAMBDA c : IMPACT_ORDER(c.impact) = 2) \o
    SelectSeq(s, LAMBDA c : IMPACT_ORDER(c.impact) = 3)

Truthy(detail) == detail # None /\ detail # ""

BarLine(checks, cat) ==
    IF InCategory(checks, cat) # <<>>
    THEN << [kind |-> "bar", category |-> cat,
             filled |-> CatScore(checks, cat) \div BarSegments,
             percent |-> CatScore(checks, cat)] >>
    ELSE <<>>

IssueLine(c) ==
    [kind |-> "issue", name |-> c.name, icon |-> IMPACT_ICONS(c.impact),
     detail |-> IF Truthy(c.detail) THEN c.detail ELSE ""]

IssueLines(failed, cat) ==
    IF InCategory(failed, cat) = <<>> THEN <<>>
    ELSE << [kind |-> "issue_category", category |-> cat] >> \o
         [i \in 1..Len(InCategory(failed, cat)) |->
             IssueLine(SortByImpact(InCategory(failed, cat))[i])]

\* variant: the loop over the categories stops before the last one
IssuesSection_SkipsLast(failed) ==
    IF failed = <<>> THEN <<>>
    ELSE << [kind |-> "issues_header", count |-> Len(failed)] >> \o
         IssueLines(failed, categories[1]) \o IssueLines(failed, categories[2]) \o
         IssueLines(failed, categories[3])

IssuesSection(failed) ==
    IF failed = <<>> THEN <<>>
    ELSE << [kind |-> "issues_header", count |-> Len(failed)] >> \o
         IssueLines(failed, categories[1]) \o IssueLines(failed, categories[2]) \o
         IssueLines(failed, categories[3]) \o IssueLines(failed, categories[4])

PassingLine(passed, cat) ==
    IF InCategory(passed, cat) = <<>> THEN <<>>
    ELSE << [kind |-> "passing", category |-> cat,
             names |-> [i \in 1..Len(InCategory(passed, cat)) |->
                           InCategory(passed, cat)[i].name]] >>

print_report(dom, checks, lt) ==
    << [kind |-> "banner", site |-> dom, load_time |-> lt],
       [kind |-> "score", score |-> Score(checks), verdict |-> Verdict(Score(checks))] >> \o
    BarLine(checks, categories[1]) \o BarLine(checks, categories[2]) \o
    BarLine(checks, categories[3]) \o BarLine(checks, categories[4]) \o
    IssuesSection(Failed(checks)) \o
    << [kind |-> "passing_header", passed |-> Len(Passed(checks)), total |-> Len(checks)] >> \o
    PassingLine(Passed(checks), categories[1]) \o PassingLine(Passed(checks), categories[2]) \o
    PassingLine(Passed(checks), categories[3]) \o PassingLine(Passed(checks), categories[4]) \o
    << [kind |-> "footer"] >>

\* ------------------------------------------------------------------- inputs
\* the argument forms of the usage text, with and without scheme and slashes
Args ==
    { <<"mystartup.com">>,
      <<"http://", "mystartup.com", "/">>,
      <<"https://", "mystartup.com", "/", "pricing", "/">> }

RawHeaderNames ==
    {"Strict-Transport-Security", "X-Content-Type-Options", "X-FRAME-OPTIONS",
     "Content-Security-Policy", "Referrer-Policy", "permissions-policy",
     "Content-Type"}

HeaderSets == {{}} \cup {{k} : k \in RawHeaderNames} \cup {RawHeaderNames}

TitleLens == {0, 1, TitleMin - 1, TitleMin, TitleMax, TitleMax + 1}
Titles ==
    {<<>>} \cup {<<[raw |-> n, markup |-> 0]>> : n \in TitleLens}
           \cup {<<[raw |-> n + 9, markup |-> 9]>> : n \in {0, TitleMin - 1, TitleMax}}

Descs == {<<>>} \cup {<<n>> : n \in {0, 1, DescMin - 1, DescMin, DescMax, DescMax + 1}}

SeqsUpTo(S, n) == UNION {[1..k -> S] : k \in 0..n}

H1Lists == SeqsUpTo({0, 70}, MaxH1)
ImgLists == SeqsUpTo(BOOLEAN, MaxImgs)

AllTriggers == PrivacyTriggers \cup CookieTriggers \cup TermsTriggers \cup ContactTriggers
\* "we use cookies" contains "cookie"
SubstringClosed(S) == S \cup (IF "we use cookies" \in S THEN {"cookie"} ELSE {})
PhraseSets ==
    {{}} \cup {AllTriggers}
         \cup {SubstringClosed({x}) : x \in {"gdpr", "@", "/terms", "we use cookies", "privacy policy"}}

\* elapsed milliseconds of the primary fetch, on both sides of 2 s and 3 s
ElapsedMs == {420, 1994, 1996, 2996, 3004}

\* the values each input of a response ranges over
Dom ==
    [ raw_headers |-> HeaderSets,
      elapsed     |-> ElapsedMs,
      title       |-> Titles,
      desc        |-> Descs,
      h1s         |-> H1Lists,
      canonical   |-> BOOLEAN,
      schema      |-> BOOLEAN,
      og          |-> BOOLEAN,
      viewport    |-> BOOLEAN,
      imgs        |-> ImgLists,
      other_http  |-> BOOLEAN,
      indents     |-> {0, BloatLimit - 1, BloatLimit, BloatLimit + 1},
      phrases     |-> PhraseSets ]

\* an empty page served without security headers
BareResponse ==
    [ raw_headers |-> {"Content-Type"}, elapsed |-> 2996,
      title |-> <<>>, desc |-> <<>>, h1s |-> <<>>,
      canonical |-> FALSE, schema |-> FALSE, og |-> FALSE, viewport |-> FALSE,
      imgs |-> <<>>, other_http |-> TRUE, indents |-> BloatLimit,
      phrases |-> {} ]

\* a page on which every check passes
RichResponse ==
    [ raw_headers |-> RawHeaderNames, elapsed |-> 420,
      title |-> <<[raw |-> 42, markup |-> 0]>>, desc |-> <<120>>, h1s |-> <<70>>,
      canonical |-> TRUE, schema |-> TRUE, og |-> TRUE, viewport |-> TRUE,
      imgs |-> <<TRUE>>, other_http |-> FALSE, indents |-> 0,
      phrases |-> AllTriggers ]

Vary1(r) == UNION { {[r EXCEPT ![f] = v] : v \in Dom[f]} : f \in DOMAIN Dom }

RECURSIVE Ball(_, _)
Ball(S, k) == IF k = 0 THEN S ELSE Ball(S \cup UNION {Vary1(r) : r \in S}, k - 1)

\* responses that differ from a reference response in at most MaxVaried inputs
Responses == Ball({BareResponse, RichResponse}, MaxVaried)

\* ----------------------------------------------------------------- the scan
Call(op) == [op |-> op, url |-> <<>>, outcome |-> NoOutcome]
Fetch(url, outcome) == [op |-> "fetch_url", url |-> url, outcome |-> outcome]

Init ==
    /\ argv \in {<<>>} \cup {<<a>> : a \in Args}
    /\ pc = "start"
    /\ domain = <<>>
    /\ base_url = <<>>
    /\ html = None
    /\ resp_headers = {}
    /\ load_time = 0
    /\ all_checks = <<>>
    /\ results = <<>>
    /\ trace = <<>>
    /\ stdout = <<>>
    /\ exit_code = None

\* main, lines 279-282: no argument
Usage ==
    /\ pc = "start"
    /\ Len(argv) < 1
    /\ stdout' = stdout \o << [kind |-> "usage"], [kind |-> "example"] >>
    /\ exit_code' = "1"
    /\ pc' = "done"
    /\ UNCHANGED <<argv, domain, base_url, html, resp_headers, load_time,
                   all_checks, results, trace>>

\* main, lines 284-288
ParseArgs ==
    /\ pc = "start"
    /\ ~(Len(argv) < 1)
    /\ domain' = Normalize(argv[1])
    /\ base_url' = BaseUrl(Normalize(argv[1]))
    /\ stdout' = stdout \o << [kind |-> "scanning", site |-> Normalize(argv[1])],
                              [kind |-> "checking"] >>
    /\ pc' = "fetch"
    /\ UNCHANGED <<argv, html, resp_headers, load_time, all_checks, results,
                   trace, exit_code>>

\* main, lines 290-298: fetch_url raises
FetchOpenFails ==
    /\ pc = "fetch"
    /\ \E e \in {"URLError", "HTTPError 503", "SSLError", "timeout"} :
         /\ trace' = Append(trace, Fetch(base_url, Raised(e)))
         /\ stdout' = Append(stdout, [kind |-> "error", url |-> base_url, error |-> e])
    /\ exit_code' = "1"
    /\ pc' = "done"
    /\ UNCHANGED <<argv, domain, base_url, html, resp_headers, load_time,
                   all_checks, results>>

\* variant: a failed read is taken for an empty body and the scan goes on
FetchReadFails_GoesOn ==
    /\ pc = "fetch"
    /\ \E ms \in ElapsedMs, e \in {"IncompleteRead", "timeout"} :
         /\ load_time' = RoundLoad(ms)
         /\ trace' = Append(trace, Fetch(base_url, [status |-> 200, error |-> e]))
    /\ html' = [ title |-> <<>>, desc |-> <<>>, h1s |-> <<>>, canonical |-> FALSE,
                 schema |-> FALSE, og |-> FALSE, viewport |-> FALSE, imgs |-> <<>>,
                 other_http |-> FALSE, indents |-> 0, phrases |-> {} ]
    /\ resp_headers' = {}
    /\ all_checks' = <<>>
    /\ pc' = "security"
    /\ UNCHANGED <<argv, domain, base_url, results, stdout, exit_code>>

\* main, lines 290-298: the response arrives, r.read() raises
FetchReadFails ==
    /\ pc = "fetch"
    /\ \E ms \in ElapsedMs, e \in {"IncompleteRead", "timeout"} :
         /\ load_time' = RoundLoad(ms)
         /\ trace' = Append(trace, Fetch(base_url, [status |-> 200, error |-> e]))
         /\ stdout' = Append(stdout, [kind |-> "error", url |-> base_url, error |-> e])
    /\ exit_code' = "1"
    /\ pc' = "done"
    /\ UNCHANGED <<argv, domain, base_url, html, resp_headers, all_checks, results>>

\* what the check modules read of the decoded body
Body(r) ==
    [ title |-> r.title, desc |-> r.desc, h1s |-> r.h1s, canonical |-> r.canonical,
      schema |-> r.schema, og |-> r.og, viewport |-> r.viewport, imgs |-> r.imgs,
      other_http |-> r.other_http, indents |-> r.indents, phrases |-> r.phrases ]

\* main, lines 290-300: the primary fetch succeeds
FetchOk ==
    /\ pc = "fetch"
    /\ \E r \in Responses :
         /\ load_time' = RoundLoad(r.elapsed)
         /\ html' = Body(r)
         /\ resp_headers' = LowerKeys(r.raw_headers)
    /\ trace' = Append(trace, Fetch(base_url, Returned(200)))
    /\ all_checks' = <<>>
    /\ pc' = "security"
    /\ UNCHANGED <<argv, domain, base_url, results, stdout, exit_code>>

\* main, line 301
CheckSecurity ==
    /\ pc = "security"
    /\ all_checks' = Update(all_checks, check_security(base_url, html, resp_headers))
    /\ trace' = Append(trace, Call("check_security"))
    /\ pc' = "seo"
    /\ UNCHANGED <<argv, domain, base_url, html, resp_headers, load_time,
                   results, stdout, exit_code>>

\* main, line 302
CheckSeo ==
    /\ pc = "seo"
    /\ all_checks' = Update(all_checks, check_seo(html, base_url))
    /\ trace' = Append(trace, Call("check_seo"))
    /\ pc' = "performance"
    /\ UNCHANGED <<argv, domain, base_url, html, resp_headers, load_time,
                   results, stdout, exit_code>>

\* main, line 303
CheckPerformance ==
    /\ pc = "performance"
    /\ all_checks' = Update(all_checks, check_performance(load_time, html))
    /\ trace' = Append(trace, Call("check_performance"))
    /\ pc' = "compliance"
    /\ UNCHANGED <<argv, domain, base_url, html, resp_headers, load_time,
                   results, stdout, exit_code>>

\* main, line 304
CheckCompliance ==
    /\ pc = "compliance"
    /\ all_checks' = Update(all_checks, check_compliance(html, base_url))
    /\ trace' = Append(trace, Call("check_compliance"))
    /\ pc' = "robots"
    /\ UNCHANGED <<argv, domain, base_url, html, resp_headers, load_time,
                   results, stdout, exit_code>>

\* variant: a probe that raises is tried a second time
ProbeRobots_Retries ==
    /\ pc = "robots"
    /\ \E o \in ProbeOutcomes :
         /\ trace' = IF o.error = None
                      THEN Append(Append(trace, Call("check_infra")),
                                  Fetch(base_url \o <<infra_probes[1].path>>, o))
                      ELSE Append(Append(Append(trace, Call("check_infra")),
                                         Fetch(base_url \o <<infra_probes[1].path>>, o)),
                                  Fetch(base_url \o <<infra_probes[1].path>>, o))
         /\ results' = Put(<<>>, ProbeResult(infra_probes[1], o))
    /\ pc' = "sitemap"
    /\ UNCHANGED <<argv, domain, base_url, html, resp_headers, load_time,
                   all_checks, stdout, exit_code>>

\* main, line 305, check_infra: first iteration of the loop
ProbeRobots ==
    /\ pc = "robots"
    /\ \E o \in ProbeOutcomes :
         /\ trace' = Append(Append(trace, Call("check_infra")),
                            Fetch(base_url \o <<infra_probes[1].path>>, o))
         /\ results' = Put(<<>>, ProbeResult(infra_probes[1], o))
    /\ pc' = "sitemap"
    /\ UNCHANGED <<argv, domain, base_url, html, resp_headers, load_time,
                   all_checks, stdout, exit_code>>

\* check_infra: second iteration of the loop, return, and the update of line 305
ProbeSitemap ==
    /\ pc = "sitemap"
    /\ \E o \in ProbeOutcomes :
         /\ trace' = Append(trace, Fetch(base_url \o <<infra_probes[2].path>>, o))
         /\ results' = Put(results, ProbeResult(infra_probes[2], o))
         /\ all_checks' = Update(all_checks, Put(results, ProbeResult(infra_probes[2], o)))
    /\ pc' = "report"
    /\ UNCHANGED <<argv, domain, base_url, html, resp_headers, load_time,
                   stdout, exit_code>>

\* main, line 307, and the end of the process
PrintReport ==
    /\ pc = "report"
    /\ stdout' = stdout \o print_report(domain, all_checks, load_time)
    /\ trace' = Append(trace, Call("print_report"))
    /\ exit_code' = "0"
    /\ pc' = "done"
    /\ UNCHANGED <<argv, domain, base_url, html, resp_headers, load_time,
                   all_checks, results>>

Next ==
    \/ Usage
    \/ ParseArgs
    \/ FetchOpenFails
    \/ FetchReadFails
    \/ FetchOk
    \/ CheckSecurity
    \/ CheckSeo
    \/ CheckPerformance
    \/ CheckCompliance
    \/ ProbeRobots
    \/ ProbeSitemap
    \/ PrintReport

Spec == Init /\ [][Next]_vars

TypeOK ==
    /\ pc \in {"start", "fetch", "security", "seo", "performance", "compliance",
               "robots", "sitemap", "report", "done"}
    /\ exit_code \in {None, "0", "1"}

\* ------------------------------------------- print_report on a given result set
SampleImpacts == <<"critical", "high", "medium", "low", "high">>

\* the i-th check of a result set of which the first p checks pass
SampleCheck(i, p) ==
    Entry("check " \o ToString(i), i <= p, SampleImpacts[(i % 5) + 1],
          categories[(i % 4) + 1], None)

ResultSets ==
    UNION { {[i \in 1..t |-> SampleCheck(i, p)] : p \in 0..t} : t \in 1..MaxTotal }

InitReport ==
    /\ argv = <<<<"mystartup.com">>>>
    /\ pc = "report"
    /\ domain = <<"mystartup.com">>
    /\ base_url = BaseUrl(<<"mystartup.com">>)
    /\ html = None
    /\ resp_headers = {}
    /\ load_time \in {RoundLoad(ms) : ms \in ElapsedMs}
    /\ all_checks \in ResultSets
    /\ results = <<>>
    /\ trace = <<>>
    /\ stdout = <<>>
    /\ exit_code = None

NextReport == PrintReport

SpecReport == InitReport /\ [][NextReport]_vars

\* =================================================================== claims
Kinds(k) == SelectSeq(stdout, LAMBDA l : l.kind = k)
ReportPrinted == Kinds("score") # <<>>
ScoreLine == Kinds("score")[1]
PrimaryDone == Len(trace) >= 1 /\ trace[1].op = "fetch_url"
PrimaryFailed == PrimaryDone /\ trace[1].outcome.error # None
PrimaryOk == PrimaryDone /\ trace[1].outcome.error = None
FetchesOf(url) == SelectSeq(trace, LAMBDA t : t.op = "fetch_url" /\ t.url = url)
RobotsUrl == base_url \o <<"/robots.txt">>
SitemapUrl == base_url \o <<"/sitemap.xml">>
ReportKinds == {"banner", "score", "bar", "issues_header", "issue_category", "issue",
                "passing_header", "passing", "footer"}
NumPassed == Cardinality({i \in 1..Len(all_checks) : all_checks[i].pass})
Merged == pc \in {"report", "done"} /\ exit_code # "1"

\* C1: when the primary fetch fails (open or read raises), an error line is
\* printed, the process has exited with status 1, the failed fetch is the only
\* request ever issued, and nothing of the report is output.
C1_PrimaryFailureAborts ==
    PrimaryFailed =>
        /\ pc = "done"
        /\ exit_code = "1"
        /\ Kinds("error") # <<>>
        /\ Len(trace) = 1
        /\ \A i \in 1..Len(stdout) : stdout[i].kind \notin ReportKinds
        /\ all_checks = <<>>
        /\ ~ENABLED Next

C1_Witness ==
    PrimaryFailed /\ trace[1].outcome.error = "IncompleteRead" /\ pc = "done"

\* C2: after a successful primary fetch the scan never aborts; whatever the two
\* probes return, the second probe is issued after the first, the result set
\* has a robots.txt and a sitemap.xml check, each passing iff its own probe
\* returned status 200, and the report is printed.
C2_ProbeFailureNotFatal ==
    PrimaryOk =>
        /\ exit_code # "1"
        /\ (pc = "sitemap" => Len(FetchesOf(RobotsUrl)) = 1 /\ ENABLED ProbeSitemap)
        /\ (pc \in {"report", "done"} =>
              /\ Len(FetchesOf(RobotsUrl)) = 1
              /\ Len(FetchesOf(SitemapUrl)) = 1
              /\ {"robots.txt", "sitemap.xml"} \subseteq Names(all_checks)
              /\ Get(all_checks, "robots.txt").pass
                   <=> (FetchesOf(RobotsUrl)[1].outcome = Returned(200))
              /\ Get(all_checks, "sitemap.xml").pass
                   <=> (FetchesOf(SitemapUrl)[1].outcome = Returned(200)))
        /\ (pc = "done" => ReportPrinted /\ exit_code = "0")

C2_Witness ==
    /\ PrimaryOk /\ pc = "done" /\ ReportPrinted
    /\ FetchesOf(RobotsUrl)[1].outcome.error # None
    /\ FetchesOf(SitemapUrl)[1].outcome = Returned(200)
    /\ ~Get(all_checks, "robots.txt").pass
    /\ Get(all_checks, "sitemap.xml").pass

\* round(a / b): to the nearest integer, a tie to the even one
RoundNearest(a, b) ==
    LET q == a \div b
        r == a % b
    IN IF 2 * r < b THEN q
       ELSE IF 2 * r > b THEN q + 1
       ELSE IF q % 2 = 0 THEN q ELSE q + 1

\* C3 as stated: the printed score is 100 * passed / total rounded to the
\* nearest integer.
C3_Original ==
    ReportPrinted =>
        ScoreLine.score = RoundNearest(100 * NumPassed, Len(all_checks))

\* C3 as amended: the printed score is 100 * passed / total truncated to an
\* integer (the largest s with s * total <= 100 * passed); it is 100 when every
\* check passes and 0 when every check fails.
C3_ScoreTruncates ==
    ReportPrinted =>
        /\ ScoreLine.score * Len(all_checks) <= 100 * NumPassed
        /\ 100 * NumPassed < (ScoreLine.score + 1) * Len(all_checks)
        /\ (NumPassed = Len(all_checks) => ScoreLine.score = 100)
        /\ (NumPassed = 0 => ScoreLine.score = 0)

C3_Witness ==
    /\ ReportPrinted /\ Len(all_checks) = 24 /\ NumPassed = 23
    /\ ScoreLine.score = 95

\* C4: the printed verdict is decided by the printed score with lower-inclusive
\* boundaries 85, 65 and 45; 84 is not Excellent, 85 is.
C4_VerdictTiers ==
    ReportPrinted =>
        LET s == ScoreLine.score
            v == ScoreLine.verdict
        IN /\ s \in 0..100
           /\ (s >= 85 => v = "Excellent")
           /\ (65 <= s /\ s < 85 => v = "Good")
           /\ (45 <= s /\ s < 65 => v = "Needs work")
           /\ (s < 45 => v = "Critical")

C4_Witness ==
    ReportPrinted /\ ScoreLine.score = 85 /\ ScoreLine.verdict = "Excellent"

C4_Witness84 ==
    ReportPrinted /\ ScoreLine.score = 84 /\ ScoreLine.verdict = "Good"

\* the result set of a scan of the reference page on which every check passes
ReferenceChecks ==
    Update(Update(Update(Update(Update(<<>>,
        check_security(BaseUrl(<<"mystartup.com">>), Body(RichResponse),
                       LowerKeys(RichResponse.raw_headers))),
        check_seo(Body(RichResponse), BaseUrl(<<"mystartup.com">>))),
        check_performance(RoundLoad(RichResponse.elapsed), Body(RichResponse))),
        check_compliance(Body(RichResponse), BaseUrl(<<"mystartup.com">>))),
        << ProbeResult(infra_probes[1], Returned(200)),
           ProbeResult(infra_probes[2], Returned(200)) >>)

\* C5 as stated: every recorded check has the impact and the category that the
\* check of that name has in any other run (here: the scan of the reference
\* page), whatever was fetched.
C5_Original ==
    \A i \in 1..Len(all_checks) :
        /\ all_checks[i].name \in Names(ReferenceChecks)
        /\ all_checks[i].impact = Get(ReferenceChecks, all_checks[i].name).impact
        /\ all_checks[i].category = Get(ReferenceChecks, all_checks[i].name).category

DataDependentImpact == {"Title tag", "Meta description", "H1 tag"}

\* C5 as amended: the category depends only on the check's name, and so does
\* the impact of every check but Title tag, Meta description and H1 tag; those
\* three are one tier lower (high, medium, high instead of critical, high,
\* critical) exactly when the element is present but out of range.
C5_StaticExceptThree ==
    \A i \in 1..Len(all_checks) :
        LET c == all_checks[i]
            ref == Get(ReferenceChecks, c.name)
        IN /\ c.name \in Names(ReferenceChecks)
           /\ c.category = ref.category
           /\ (c.name \notin DataDependentImpact => c.impact = ref.impact)
           /\ (c.name = "Title tag" =>
                 c.impact = IF html.title # <<>>
                               /\ html.title[1].raw - html.title[1].markup # 0
                               /\ (html.title[1].raw - html.title[1].markup < 30
                                   \/ html.title[1].raw - html.title[1].markup > 60)
                            THEN "high" ELSE "critical")
           /\ (c.name = "Meta description" =>
                 c.impact = IF html.desc # <<>> /\ html.desc[1] # 0
                               /\ (html.desc[1] < 70 \/ html.desc[1] > 160)
                            THEN "medium" ELSE "high")
           /\ (c.name = "H1 tag" =>
                 c.impact = IF Len(html.h1s) > 1 THEN "high" ELSE "critical")

C5_Witness ==
    /\ pc = "done" /\ ReportPrinted
    /\ Get(all_checks, "Title tag").impact = "high"
    /\ Get(all_checks, "Contact info").pass

RECURSIVE PassingNames(_)
PassingNames(lines) ==
    IF lines = <<>> THEN <<>> ELSE Head(lines).names \o PassingNames(Tail(lines))

IssueCount(n) == Len(SelectSeq(Kinds("issue"), LAMBDA l : l.name = n))
PassingCount(n) == Len(SelectSeq(PassingNames(Kinds("passing")), LAMBDA x : x = n))

\* C6: in a printed report every check of the merged result set is listed
\* exactly once: under ISSUES FOUND iff its pass flag is false, under PASSING
\* iff it is true; the two lists together have as many names as there are
\* checks and name nothing else.
C6_ListsPartitionChecks ==
    ReportPrinted =>
        /\ \A i \in 1..Len(all_checks) :
              /\ IssueCount(all_checks[i].name) = (IF all_checks[i].pass THEN 0 ELSE 1)
              /\ PassingCount(all_checks[i].name) = (IF all_checks[i].pass THEN 1 ELSE 0)
        /\ Len(Kinds("issue")) + Len(PassingNames(Kinds("passing"))) = Len(all_checks)
        /\ \A i \in 1..Len(Kinds("issue")) : Kinds("issue")[i].name \in Names(all_checks)
        /\ Kinds("passing_header")[1].passed = NumPassed
        /\ Kinds("passing_header")[1].total = Len(all_checks)
        /\ (Kinds("issues_header") # <<>> =>
               Kinds("issues_header")[1].count = Len(all_checks) - NumPassed)

C6_Witness ==
    /\ ReportPrinted /\ PrimaryOk
    /\ \E n \in Names(all_checks) :
          Get(all_checks, n).category = "compliance" /\ IssueCount(n) = 1
    /\ PassingCount("HTTPS/SSL") = 1
    /\ Len(Kinds("issue")) >= 2

ModuleCalls == {"check_security", "check_seo", "check_performance", "check_compliance"}

\* C7 as stated: the primary fetch, then the two auxiliary fetches, then the
\* check modules, then the report; every URL is requested at most once and no
\* check module is evaluated before both auxiliary fetches are done.
C7_Original ==
    /\ \A i \in 1..Len(trace) :
          trace[i].op \in ModuleCalls =>
              /\ \E j \in 1..(i - 1) : trace[j].op = "fetch_url" /\ trace[j].url = RobotsUrl
              /\ \E j \in 1..(i - 1) : trace[j].op = "fetch_url" /\ trace[j].url = SitemapUrl
    /\ \A i, j \in 1..Len(trace) :
          trace[i].op = "fetch_url" /\ trace[j].op = "fetch_url" /\ trace[i].url = trace[j].url
              => i = j

\* the one order of the steps of a scan
StepOrder ==
    << [op |-> "fetch_url", url |-> base_url],
       [op |-> "check_security", url |-> <<>>],
       [op |-> "check_seo", url |-> <<>>],
       [op |-> "check_performance", url |-> <<>>],
       [op |-> "check_compliance", url |-> <<>>],
       [op |-> "check_infra", url |-> <<>>],
       [op |-> "fetch_url", url |-> RobotsUrl],
       [op |-> "fetch_url", url |-> SitemapUrl],
       [op |-> "print_report", url |-> <<>>] >>

\* C7 as amended: the steps run in one fixed order with no retries: the primary
\* fetch, then check_security, check_seo, check_performance and
\* check_compliance, then inside check_infra the /robots.txt fetch and then the
\* /sitemap.xml fetch, then the report; every URL is requested at most once and
\* the report is not printed before both auxiliary fetches are done.
C7_FixedOrder ==
    /\ Len(trace) <= Len(StepOrder)
    /\ \A i \in 1..Len(trace) :
          trace[i].op = StepOrder[i].op /\ trace[i].url = StepOrder[i].url
    /\ (ReportPrinted => Len(trace) = Len(StepOrder))
    /\ (pc = "done" /\ exit_code = "0" => ReportPrinted)

C7_Witness ==
    /\ pc = "done" /\ Len(trace) = 9
    /\ trace[7].outcome.error # None
    /\ trace[9].op = "print_report"

\* C8: the Title tag check is decided by the length n of the stripped title:
\* none or n = 0 fails as critical with detail Missing; 1 <= n < 30 or n > 60
\* fails as high with detail "<n> chars (target: 30-60)"; 30 <= n <= 60 passes
\* as critical.
C8_TitleClasses ==
    "Title tag" \in Names(all_checks) =>
        LET c == Get(all_checks, "Title tag")
            n == IF html.title = <<>> THEN 0
                 ELSE html.title[1].raw - html.title[1].markup
        IN /\ (n = 0 => ~c.pass /\ c.impact = "critical" /\ c.detail = "Missing")
           /\ ((1 <= n /\ n < 30) \/ n > 60 =>
                  /\ ~c.pass /\ c.impact = "high"
                  /\ c.detail = ToString(n) \o " chars (target: 30-60)")
           /\ (30 <= n /\ n <= 60 => c.pass /\ c.impact = "critical")
           /\ c.category = "seo"

C8_Witness ==
    /\ "Title tag" \in Names(all_checks)
    /\ html.title = <<[raw |-> 69, markup |-> 9]>>
    /\ Get(all_checks, "Title tag").pass

C8_Witness29 ==
    /\ "Title tag" \in Names(all_checks)
    /\ html.title # <<>> /\ html.title[1].raw - html.title[1].markup = 29
    /\ Get(all_checks, "Title tag").detail = "29 chars (target: 30-60)"

\* C9: in every run that reaches the report the HTTPS/SSL check passes,
\* whatever form the argument had and whatever the server answered.
C9_HttpsAlwaysPasses ==
    /\ (pc \in {"seo", "performance", "compliance", "robots", "sitemap", "report"}
          \/ ReportPrinted)
         => /\ "HTTPS/SSL" \in Names(all_checks)
            /\ Get(all_checks, "HTTPS/SSL").pass
    /\ (ReportPrinted =>
          \E i \in 1..Len(Kinds("passing")) :
              \E j \in 1..Len(Kinds("passing")[i].names) :
                  Kinds("passing")[i].names[j] = "HTTPS/SSL")

C9_Witness ==
    /\ ReportPrinted
    /\ argv[1][1] = "http://"
    /\ Get(all_checks, "HTTPS/SSL").pass
    /\ \A h \in {"strict-transport-security", "content-security-policy"} :
          h \notin resp_headers

\* C10: when print_report is reached no module's result was overwritten by the
\* merge: the result set has the 8 + 6 + 4 + 4 + 2 = 24 checks of the five
\* modules, plus Image alt text iff the body has an <img> tag; so total > 0
\* and each of the four categories has a check and gets its score.
C10_CheckCount ==
    Merged =>
        /\ Len(all_checks) =
              Len(check_security(base_url, html, resp_headers))
              + Len(check_seo(html, base_url))
              + Len(check_performance(load_time, html))
              + Len(check_compliance(html, base_url))
              + Len(results)
        /\ Cardinality(Names(all_checks)) = Len(all_checks)
        /\ Len(all_checks) = (IF html.imgs = <<>> THEN 24 ELSE 25)
        /\ Len(all_checks) > 0
        /\ \A k \in 1..4 : \E i \in 1..Len(all_checks) :
              all_checks[i].category = categories[k]
        /\ (ReportPrinted => Len(Kinds("bar")) = 4)

C10_Witness ==
    /\ Merged /\ ReportPrinted
    /\ html.imgs # <<>>
    /\ Len(all_checks) = 25
    /\ "Image alt text" \in Names(all_checks)

====
